---- MODULE Spec2Model ----
(***************************************************************************)
(* Formstate: the per-field / per-form validation engine of @formstate/core *)
(* (useForm.ts, lib/createFields.ts, lib/validation.ts) on top of Vue's     *)
(* reactivity: watchers are scheduler jobs run by a flush microtask,        *)
(* nextTick callbacks are microtasks behind the pending flush, and every    *)
(* await of the async functions is a suspension point.                      *)
(***************************************************************************)
EXTENDS Integers, Sequences, FiniteSets, TLC

VARIABLES
    fields,     \* formState.value.fields: field name -> field record
    form,       \* the remaining members of formState.value, symbols included
    passes,     \* the async validation calls that are suspended at an await
    jobs,       \* watcher jobs queued in Vue's scheduler (run by the flush)
    queue,      \* FIFO of microtasks: the flush, nextTick callbacks, continuations
    ops,        \* number of caller operations performed (bounded by MaxOps)
    sync,       \* TRUE while the caller's synchronous block is still running
    last,       \* history: the latest caller operation and the state it met
    store       \* the registry of named forms: name -> handle

vars == <<fields, form, passes, jobs, queue, ops, sync, last, store>>

(***************************************************************************)
(* Bounds of the model.                                                     *)
(***************************************************************************)
MaxVal == 1         \* field values are 0..MaxVal; 0 is the empty value ""
MaxPasses == 2      \* async validation calls suspended at the same time
NumTokens == 2      \* size of the model's stand-in for the 2^32 random ids
MaxOps == 2         \* caller operations per behaviour
MaxLen == 2         \* length of the lists given to a library function
MaxForms == 3       \* useForm calls per behaviour of the registry

Fields == {"a", "b"}
FieldOrder == <<"a", "b">>      \* Object.keys / Object.values order
Values == 0..MaxVal
InitialValue == [f \in Fields |-> 0]
Slots == 1..MaxPasses
TokenIds == 1..NumTokens
NoToken == 0                    \* formValidationLock === undefined

(***************************************************************************)
(* Rules.  A callable is a record [call |-> kind]; a wrapper is a record    *)
(* with a "rule" member and possibly an "autoValidate" member.              *)
(*   required   (value) => value === "" ? "required" : true                 *)
(*   taken      async (value) => ...    resolves to an error or to nothing  *)
(*   always     () => "always"          an error whatever the value          *)
(*   formError  () => "form validation error"                               *)
(*   formAsync  async () => ...        resolves to an error or to nothing   *)
(*   deferred   () => new Promise(...)  a plain function returning a promise *)
(*   flaky      async (value) => ...    resolves to nothing or rejects       *)
(*   throwing   (value) => ...          throws on the value 1, else true     *)
(*   formThrowing  () => { throw ... }  throws                               *)
(*   formFlaky  async () => ...         resolves to nothing or rejects       *)
(*   undefined  no callable at all (rule.rule is undefined)                  *)
(***************************************************************************)
Fn(kind) == [call |-> kind]
AsyncKinds == {"taken", "formAsync", "flaky", "formFlaky"}
PromiseKinds == {"deferred"}
NoFn == [call |-> "undefined"]

\* rule.rule?.constructor.name === "AsyncFunction"
IsAsyncFunction(fn) == fn.call \in AsyncKinds

AsyncErrNames == <<"taken0", "taken1", "taken2", "taken3">>
AsyncErr(v) == AsyncErrNames[v + 1]

\* The value a callable returns when it is called with args; "promise" stands
\* for a pending promise, whose outcome is decided when it settles.
Invoke(fn, args) ==
    CASE fn.call = "required" -> IF args[1] = 0 THEN "required" ELSE "true"
      [] fn.call = "always" -> "always"
      [] fn.call = "formError" -> "form validation error"
      [] fn.call = "throwing" -> IF args[1] = 1 THEN "throws" ELSE "true"
      [] fn.call = "formThrowing" -> "throws"
      [] fn.call \in AsyncKinds \cup PromiseKinds -> "promise"
      [] OTHER -> "undefined"

\* What the promise of an async callable can settle to.
Outcomes(fn, args) ==
    CASE fn.call = "taken" -> {"undefined", AsyncErr(args[1])}
      [] fn.call = "formAsync" -> {"undefined", "async form error"}
      [] fn.call = "deferred" -> {"undefined", "some error"}
      [] fn.call \in {"flaky", "formFlaky"} -> {"undefined", "rejected"}
      [] OTHER -> {"undefined"}

(***************************************************************************)
(* lib/createFields.ts                                                      *)
(***************************************************************************)
HasRule(value) == "rule" \in DOMAIN value

\* An optional value: << >> when it is undefined, <<x>> when it is x.
Omitted == << >>
Given(x) == <<x>>

\* a mapper that wraps every entry
mapperAlwaysWrap(value) == [rule |-> value]

mapper(value) == IF HasRule(value) THEN value ELSE [rule |-> value]

createValidationObject(fn) ==
    IF fn = Omitted THEN << >>
    ELSE [i \in 1..Len(fn[1]) |-> mapper(fn[1][i])]

(***************************************************************************)
(* lib/validation.ts: the rule evaluator                                    *)
(***************************************************************************)
\* rule.autoValidate ?? true
AutoValidateOf(rule) ==
    IF "autoValidate" \in DOMAIN rule THEN rule.autoValidate ELSE TRUE

\* processValidationObject without its noAutoValidation test
ApplicableIgnoringAutoValidate(rule, shouldValidate, promise) ==
    rule.rule # NoFn /\ ~(IsAsyncFunction(rule.rule) /\ ~promise)

\* processValidationObject without its noPromiseValidation test
ApplicableIgnoringPromise(rule, shouldValidate, promise) ==
    rule.rule # NoFn /\ ~(~AutoValidateOf(rule) /\ ~shouldValidate)

\* TRUE iff processValidationObject calls rule.rule
Applicable(rule, shouldValidate, promise) ==
    LET noAutoValidation == ~AutoValidateOf(rule) /\ ~shouldValidate
        noPromiseValidation == IsAsyncFunction(rule.rule) /\ ~promise
    IN  ~(rule.rule = NoFn \/ noAutoValidation \/ noPromiseValidation)

\* processValidationObject with the call of the rule in a try / catch
processValidationObjectCaught(rule, callArguments, shouldValidate, promise) ==
    IF ~Applicable(rule, shouldValidate, promise)
           \/ Invoke(rule.rule, callArguments) = "throws"
    THEN "undefined"
    ELSE LET result == Invoke(rule.rule, callArguments)
         IN  IF result = "promise" /\ ~promise
             THEN "undefined"
             ELSE Invoke(rule.rule, callArguments)

\* "throws" stands for the exception the call of the rule throws, which
\* processValidationObject lets through
processValidationObject(rule, callArguments, shouldValidate, promise) ==
    IF ~Applicable(rule, shouldValidate, promise)
    THEN "undefined"
    ELSE LET result == Invoke(rule.rule, callArguments)
         IN  IF result = "promise" /\ ~promise
             THEN "undefined"
             ELSE Invoke(rule.rule, callArguments)

\* mapErrors without its e === false case
mapErrorsKeepFalse(e) ==
    CASE e = "true" -> "undefined"
      [] OTHER -> e

\* how many times processValidationObject calls rule.rule
Calls(rule, callArguments, shouldValidate, promise) ==
    IF ~Applicable(rule, shouldValidate, promise)
    THEN 0
    ELSE IF Invoke(rule.rule, callArguments) = "promise" /\ ~promise
         THEN 1
         ELSE 2

mapErrors(e) ==
    CASE e = "false" -> "not valid"
      [] e = "true" -> "undefined"
      [] OTHER -> e

errorFilter(e) == e # "undefined" /\ e # "null"

\* An argument of unknown type: a list is [array |-> <<...>>], any other
\* value is [scalar |-> v].
Array(xs) == [array |-> xs]
Scalar(v) == [scalar |-> v]
IsArray(x) == "array" \in DOMAIN x

\* createInternalValidationResults that calls a single error valid
createInternalValidationResultsLenient(errors) ==
    LET list == IF IsArray(errors) THEN errors.array ELSE <<errors.scalar>>
        mapped == [i \in 1..Len(list) |-> mapErrors(list[i])]
        _errors == SelectSeq(mapped, errorFilter)
    IN  [valid |-> Len(_errors) <= 1, errors |-> _errors]

createInternalValidationResults(errors) ==
    LET list == IF IsArray(errors) THEN errors.array ELSE <<errors.scalar>>
        mapped == [i \in 1..Len(list) |-> mapErrors(list[i])]
        _errors == SelectSeq(mapped, errorFilter)
    IN  [valid |-> Len(_errors) = 0, errors |-> _errors]

Thrown(raw) == \E i \in 1..Len(raw) : raw[i] = "throws"

\* validateInternal up to the promise: the raw results of the rules, in rule
\* order, "promise" standing where an async rule is still to settle.  When a
\* rule throws, map() stops there: the list ends with "throws".
validateInternal(obj, validateFnArguments, alwaysValidate, promise) ==
    LET all == [i \in 1..Len(obj) |->
                 processValidationObject(obj[i], validateFnArguments,
                                         alwaysValidate, promise)]
    IN  IF Thrown(all)
        THEN SubSeq(all, 1, CHOOSE i \in 1..Len(all) :
                                /\ all[i] = "throws"
                                /\ \A j \in 1..(i - 1) : all[j] # "throws")
        ELSE all

\* validateInternal(obj, validateFnArguments, {alwaysValidate}): the result of
\* the synchronous evaluation (promise is false); obj is optional.  No rule of
\* the model returns a list, so flat() leaves the results as they are.
validateInternalSync(obj, validateFnArguments, alwaysValidate) ==
    IF obj = Omitted
    THEN [valid |-> TRUE, errors |-> << >>]
    ELSE createInternalValidationResults(
            Array(validateInternal(obj[1], validateFnArguments, alwaysValidate, FALSE)))

\* Promise.all(validation) has settled: every promise is fulfilled, or one of
\* them is rejected
Settled(raw) ==
    \/ \A i \in 1..Len(raw) : raw[i] # "promise"
    \/ \E i \in 1..Len(raw) : raw[i] = "rejected"

\* validationPromise without its catch: the rejection counts as a result
validationPromiseNoCatch(validation) ==
    createInternalValidationResults(Array(validation))

\* validationPromise(validation), once Promise.all(validation) has settled
validationPromise(validation) ==
    IF \E i \in 1..Len(validation) : validation[i] = "rejected"
    THEN createInternalValidationResults(Array(<< >>))
    ELSE createInternalValidationResults(Array(validation))

(***************************************************************************)
(* lib/validation.ts: collectErrors                                         *)
(***************************************************************************)
RECURSIVE FlatErrors(_, _)
FlatErrors(fs, order) ==
    IF order = <<>> THEN <<>>
    ELSE fs[Head(order)].errors \o FlatErrors(fs, Tail(order))

ValidResult == [valid |-> TRUE, errors |-> <<>>]

\* collectErrors with the form-level errors put first
collectErrorsFormFirst(fs, validationResults) ==
    LET given == IF validationResults = Omitted THEN ValidResult
                 ELSE validationResults[1]
    IN  [valid |-> (\A f \in Fields : fs[f].valid) /\ given.valid,
         errors |-> given.errors \o FlatErrors(fs, FieldOrder),
         errorFields |-> [f \in {g \in Fields : ~fs[g].valid} |-> fs[f].errors]]

\* collectErrors with every field entered in errorFields
collectErrorsEveryField(fs, validationResults) ==
    LET given == IF validationResults = Omitted THEN ValidResult
                 ELSE validationResults[1]
    IN  [valid |-> (\A f \in Fields : fs[f].valid) /\ given.valid,
         errors |-> FlatErrors(fs, FieldOrder) \o given.errors,
         errorFields |-> [f \in Fields |-> fs[f].errors]]

\* What collectErrors(formState, validationResults) returns; it also assigns
\* errors and errorFields of the form (see WithCollected).
collectErrors(fs, validationResults) ==
    LET given == IF validationResults = Omitted THEN ValidResult
                 ELSE validationResults[1]
        valid == (\A f \in Fields : fs[f].valid) /\ given.valid
        errors == FlatErrors(fs, FieldOrder) \o given.errors
        errorFields == [f \in {g \in Fields : ~fs[g].valid} |-> fs[f].errors]
    IN  [valid |-> valid, errors |-> errors, errorFields |-> errorFields]

WithCollected(fm, collected) ==
    [fm EXCEPT !.errors = collected.errors, !.errorFields = collected.errorFields]

\* validateFormInternal's early return under formIgnoreValidation
IgnoredResult == [valid |-> TRUE, errors |-> <<>>, errorFields |-> << >>]

(***************************************************************************)
(* State after construction (useForm, createFields)                         *)
(***************************************************************************)
\* The initial states given to useForm: per field its rules, and the form
\* rules of the options.
RuleSets ==
    { [a |-> << Fn("taken"), Fn("required") >>, b |-> << Fn("required") >>,
       form |-> << Fn("formError") >>],
      [a |-> << Fn("taken") >>, b |-> << >>,
       form |-> << Fn("formAsync") >>],
      [a |-> << [rule |-> Fn("required"), autoValidate |-> FALSE] >>,
       b |-> << Fn("taken") >>, form |-> << >>],
      [a |-> << Fn("required"), Fn("flaky") >>, b |-> << >>,
       form |-> << Fn("formError"), Fn("formFlaky") >>],
      [a |-> << Fn("throwing") >>, b |-> << Fn("taken") >>,
       form |-> << Fn("formThrowing") >>],
      [a |-> << [rule |-> Fn("always"), autoValidate |-> FALSE], Fn("taken") >>,
       b |-> << >>,
       form |-> << [rule |-> Fn("formError"), autoValidate |-> FALSE] >>] }

NoEval == [st |-> "none", raw |-> << >>, opts |-> << >>, rules |-> << >>]

IdlePass ==
    [kind |-> "idle", pc |-> "idle", token |-> NoToken, target |-> "a",
     ev |-> [f \in Fields |-> NoEval], formRaw |-> << >>, formOpts |-> << >>,
     fieldResult |-> ValidResult, result |-> IgnoredResult,
     superseded |-> FALSE, born |-> 0]

\* createField that also evaluates the rules on the initial value
createFieldValidated(key, rules) ==
    LET result == createInternalValidationResults(Array(
                    validateInternal(createValidationObject(Given(rules)),
                                     <<InitialValue[key], key>>, FALSE, FALSE)))
    IN  [value |-> InitialValue[key], prevValue |-> InitialValue[key],
         rules |-> createValidationObject(Given(rules)),
         dirty |-> FALSE, touched |-> FALSE, valid |-> result.valid,
         focused |-> FALSE, errors |-> result.errors, pending |-> FALSE]

createField(key, rules) ==
    [value |-> InitialValue[key], prevValue |-> InitialValue[key],
     rules |-> createValidationObject(Given(rules)),
     dirty |-> FALSE, touched |-> FALSE, valid |-> TRUE, focused |-> FALSE,
     errors |-> << >>, pending |-> FALSE]

\* The registry (store.value): form names, "" included, and the handles
\* useForm returns; a handle is identified by the call that built it.
Names == {"", "login", "signup"}
NoForm == 0
EmptyStore == [n \in Names |-> NoForm]

\* The form state useForm builds, with the hidden members set at construction
formState(formRules) ==
    [valid |-> TRUE, dirty |-> FALSE, touched |-> FALSE,
     pending |-> FALSE, errors |-> << >>, errorFields |-> << >>,
     formRules |-> createValidationObject(Given(formRules)),
     ignoreDirty |-> FALSE, ignoreValidation |-> FALSE,
     lock |-> NoToken]

useForm(fieldRules, formRules) ==
    /\ fields = [f \in Fields |-> createField(f, fieldRules[f])]
    /\ form = formState(formRules)
    /\ passes = [s \in Slots |-> IdlePass]
    /\ jobs = {}
    /\ queue = << >>
    /\ ops = 0
    /\ sync = TRUE
    /\ store = EmptyStore
    /\ last = [op |-> "useForm", named |-> {}, bypass |-> FALSE, changed |-> FALSE,
               quiet |-> TRUE, active |-> FALSE, hadBypass |-> FALSE,
               prevBypass |-> FALSE, prevNamed |-> {}, prevOp |-> "none",
               dirty0 |-> {}, formDirty0 |-> FALSE]

Init == \E r \in RuleSets : useForm(r, r.form)

(***************************************************************************)
(* The microtask queue and Vue's scheduler                                  *)
(***************************************************************************)
\* A microtask: the scheduler's flush, a nextTick callback, or the
\* continuation of a suspended validation call (s: its slot, f: its field).
Task(t, s, f) == [t |-> t, s |-> s, f |-> f]
FlushTask == Task("flush", 0, "a")
Cont(t, s) == Task(t, s, "a")

\* Watchers whose sources a step changed.  A field name stands for that
\* field's own value watcher (createField), "values" for validationWatcher,
\* "pending" for the pendingArray watcher, "errors" for the errors watcher.
Triggered(fs, fm, fs2, fm2) ==
    {f \in Fields : fs2[f].value # fs[f].value}
    \cup (IF \E f \in Fields : fs2[f].value # fs[f].value THEN {"values"} ELSE {})
    \cup (IF (\E f \in Fields : fs2[f].pending # fs[f].pending)
             \/ fm2.pending # fm.pending THEN {"pending"} ELSE {})

\* queueJob + queueFlush: the flush microtask is queued once, then `more`
Queued(newJobs, more) ==
    (IF newJobs # {} /\ jobs = {} THEN Append(queue, FlushTask) ELSE queue) \o more

FreeSlots == {s \in Slots : passes[s].kind = "idle"}
FirstFree == CHOOSE s \in FreeSlots : \A t \in FreeSlots : s <= t

\* slots the queued validationWatcher run is going to need
Reserved == IF "values" \in jobs THEN 1 ELSE 0

\* generateRandomId(): any of the ids
generateRandomId == TokenIds

\* every suspended call started under an older token is now superseded
Supersede(ps) == [s \in Slots |-> [ps[s] EXCEPT !.superseded = (ps[s].kind # "idle")]]

\* createValidateFieldFunction.validate up to its await
startValidate(fs, f, rules, alwaysValidate) ==
    LET raw == validateInternal(rules, <<fs[f].value, f>>, alwaysValidate, TRUE)
    IN  [st |-> IF Thrown(raw) THEN "threw" ELSE "waiting", raw |-> raw,
         rules |-> rules,
         opts |-> [i \in 1..Len(raw) |->
                    IF raw[i] = "promise"
                    THEN Outcomes(rules[i].rule, <<fs[f].value, f>>) ELSE {}]]

\* The continuations a call queues when it suspends: one per field call whose
\* rules all returned synchronously, or the form step when no field call runs.
RECURSIVE readyConts(_, _, _)
readyConts(s, ev, order) ==
    IF order = << >> THEN << >>
    ELSE (IF ev[Head(order)].st = "waiting" /\ Settled(ev[Head(order)].raw)
          THEN <<Task("fieldDone", s, Head(order))>> ELSE << >>)
         \o readyConts(s, ev, Tail(order))

\* a field call of the pass has thrown: Promise.all / await rejects
Threw(ev) == \E f \in Fields : ev[f].st = "threw"

\* a form-level step that came before the field calls of the pass resolved
fieldsSettledEarly(ev) == \E f \in Fields : ev[f].st # "waiting"

\* await Promise.all(fields.map(...)) / await validate(...): every field
\* call of the pass has resolved
fieldsSettled(ev) == \A f \in Fields : ev[f].st # "waiting"

startConts(s, ev) ==
    IF Threw(ev)
    THEN <<Cont("reject", s)>> \o readyConts(s, ev, FieldOrder)
    ELSE IF fieldsSettled(ev)
         THEN <<Cont("formPhase", s)>>
         ELSE readyConts(s, ev, FieldOrder)

\* where the call stands after its synchronous part
startPc(ev) == IF Threw(ev) THEN "rejecting" ELSE "fields"

(***************************************************************************)
(* Caller operations                                                        *)
(***************************************************************************)
Quiescent == queue = << >> /\ \A s \in Slots : passes[s].kind = "idle"

\* The caller's code runs in tasks: an operation follows the previous one in
\* the same synchronous block, or starts a task once the microtasks are done.
CallerTurn == ops < MaxOps /\ (sync \/ queue = << >>)

\* History of a caller operation: its name, the fields it names, whether it
\* is setFields with {setDirty: false, validate: false}, whether it changed a
\* value, whether the engine was at rest, whether the dirty bypass was set,
\* whether such a setFields was called before, whether the previous operation
\* was one and the fields that named, and the dirty flags the operation met.
Called(op, named, bypass, changed) ==
    last' = [op |-> op, named |-> named, bypass |-> bypass, changed |-> changed,
             quiet |-> Quiescent /\ jobs = {}, active |-> form.ignoreDirty,
             hadBypass |-> last.hadBypass \/ (last.op = "setFields" /\ last.bypass),
             prevBypass |-> last.op = "setFields" /\ last.bypass,
             prevNamed |-> last.named, prevOp |-> last.op,
             dirty0 |-> {f \in Fields : fields[f].dirty},
             formDirty0 |-> form.dirty]

\* field.value = v, assigned directly by the caller
SetValue(f, v) ==
    /\ CallerTurn
    /\ v # fields[f].value
    /\ Cardinality(FreeSlots) >= 1 \/ "values" \in jobs
    /\ fields' = [fields EXCEPT ![f].value = v]
    /\ jobs' = jobs \cup Triggered(fields, form, fields', form)
    /\ queue' = Queued(jobs', << >>)
    /\ ops' = ops + 1 /\ sync' = TRUE
    /\ Called("setValue", {f}, FALSE, TRUE)
    /\ UNCHANGED <<form, passes>>
    /\ UNCHANGED store

\* An optional boolean member of an options object: "undefined" when absent.
OptionalBoolean == {"undefined", "true", "false"}

\* x ?? default
Coalesce(x, default) == IF x = "undefined" THEN default ELSE x = "true"

\* setFields(values, {setDirty, validate}); setFields(values) has both absent
SetFields(values, setDirty, validate) ==
    /\ CallerTurn
    /\ Cardinality(FreeSlots) >= 1 \/ "values" \in jobs
    /\ form' = [form EXCEPT !.ignoreValidation = ~Coalesce(validate, FALSE),
                            !.ignoreDirty = ~Coalesce(setDirty, TRUE)]
    /\ fields' = [f \in Fields |->
                    IF f \in DOMAIN values
                    THEN [fields[f] EXCEPT !.value = values[f]] ELSE fields[f]]
    /\ jobs' = jobs \cup Triggered(fields, form, fields', form')
    /\ queue' = Queued(jobs', <<Cont("dirtyOff", 0)>>)
    /\ ops' = ops + 1 /\ sync' = TRUE
    /\ Called(IF setDirty = "undefined" /\ validate = "undefined"
              THEN "setFieldsNoOptions" ELSE "setFields",
              DOMAIN values, setDirty = "false" /\ validate = "false",
              \E f \in DOMAIN values : values[f] # fields[f].value)
    /\ UNCHANGED passes
    /\ UNCHANGED store

\* a focus handler that also marks the field touched
FocusTouching(f) ==
    /\ CallerTurn
    /\ fields' = [fields EXCEPT ![f].focused = TRUE, ![f].touched = TRUE]
    /\ ops' = ops + 1 /\ sync' = TRUE
    /\ Called("focus", {f}, FALSE, FALSE)
    /\ UNCHANGED <<form, passes, jobs, queue>>
    /\ UNCHANGED store

\* The argument of setRules: the rule list it gives to each field it names
\* and the list it gives under the key formRules.
NewRules == << [rule |-> Fn("required"), autoValidate |-> FALSE] >>
NewFormRules == << Fn("formError") >>
RuleKeys == (SUBSET (Fields \cup {"formRules"})) \ {{}}

\* a setRules that gives the rules to every field
SetRulesEveryField(keys) ==
    /\ CallerTurn
    /\ fields' = [f \in Fields |->
                    [fields[f] EXCEPT !.rules = createValidationObject(Given(NewRules))]]
    /\ form' = IF "formRules" \in keys
               THEN [form EXCEPT !.formRules = createValidationObject(Given(NewFormRules))]
               ELSE form
    /\ ops' = ops + 1 /\ sync' = TRUE
    /\ Called("setRules", keys, FALSE, FALSE)
    /\ UNCHANGED <<passes, jobs, queue>>
    /\ UNCHANGED store

\* setRules(values), values having the keys `keys`; with one field as the
\* only key it is also field.rules = [...]
SetRules(keys) ==
    /\ CallerTurn
    /\ fields' = [f \in Fields |->
                    IF f \in keys
                    THEN [fields[f] EXCEPT !.rules = createValidationObject(Given(NewRules))]
                    ELSE fields[f]]
    /\ form' = IF "formRules" \in keys
               THEN [form EXCEPT !.formRules = createValidationObject(Given(NewFormRules))]
               ELSE form
    /\ ops' = ops + 1 /\ sync' = TRUE
    /\ Called("setRules", keys, FALSE, FALSE)
    /\ UNCHANGED <<passes, jobs, queue>>
    /\ UNCHANGED store

\* field.focus(evt)
Focus(f) ==
    /\ CallerTurn
    /\ fields' = [fields EXCEPT ![f].focused = TRUE]
    /\ ops' = ops + 1 /\ sync' = TRUE
    /\ Called("focus", {f}, FALSE, FALSE)
    /\ UNCHANGED <<form, passes, jobs, queue>>
    /\ UNCHANGED store

\* field.blur(evt)
Blur(f) ==
    /\ CallerTurn
    /\ fields' = [fields EXCEPT ![f].touched = TRUE, ![f].focused = FALSE]
    /\ form' = [form EXCEPT !.touched = TRUE]
    /\ ops' = ops + 1 /\ sync' = TRUE
    /\ Called("blur", {f}, FALSE, FALSE)
    /\ UNCHANGED <<passes, jobs, queue>>
    /\ UNCHANGED store

\* resetField that leaves errors and valid as they are
resetFieldKeepingErrors(fs, key) ==
    [fs EXCEPT ![key].value = InitialValue[key], ![key].dirty = FALSE,
               ![key].touched = FALSE, ![key].focused = FALSE]

resetField(fs, key) ==
    [fs EXCEPT ![key].value = InitialValue[key], ![key].dirty = FALSE,
               ![key].errors = << >>, ![key].valid = TRUE,
               ![key].touched = FALSE, ![key].focused = FALSE]

\* a field.reset() that also clears dirty and touched of the form
ResetFieldClearingForm(f) ==
    /\ CallerTurn
    /\ Cardinality(FreeSlots) >= 1 \/ "values" \in jobs
    /\ fields' = resetField(fields, f)
    /\ form' = [form EXCEPT !.ignoreDirty = TRUE, !.ignoreValidation = TRUE,
                            !.lock = NoToken, !.dirty = FALSE, !.touched = FALSE]
    /\ passes' = Supersede(passes)
    /\ jobs' = jobs \cup Triggered(fields, form, fields', form')
    /\ queue' = Queued(jobs', <<Cont("collect", 0)>>)
    /\ ops' = ops + 1 /\ sync' = TRUE
    /\ Called("reset", {f}, FALSE, fields[f].value # InitialValue[f])
    /\ UNCHANGED store

\* field.reset()
ResetField(f) ==
    /\ CallerTurn
    /\ Cardinality(FreeSlots) >= 1 \/ "values" \in jobs
    /\ fields' = resetField(fields, f)
    /\ form' = [form EXCEPT !.ignoreDirty = TRUE, !.ignoreValidation = TRUE,
                            !.lock = NoToken]
    /\ passes' = Supersede(passes)
    /\ jobs' = jobs \cup Triggered(fields, form, fields', form')
    /\ queue' = Queued(jobs', <<Cont("collect", 0)>>)
    /\ ops' = ops + 1 /\ sync' = TRUE
    /\ Called("reset", {f}, FALSE, fields[f].value # InitialValue[f])
    /\ UNCHANGED store

RECURSIVE resetAll(_, _)
resetAll(fs, order) ==
    IF order = << >> THEN fs ELSE resetAll(resetField(fs, Head(order)), Tail(order))

\* resetForm()
ResetForm ==
    /\ CallerTurn
    /\ Cardinality(FreeSlots) >= 1 \/ "values" \in jobs
    /\ fields' = resetAll(fields, FieldOrder)
    /\ form' = [form EXCEPT !.ignoreDirty = TRUE, !.ignoreValidation = TRUE,
                            !.lock = NoToken, !.touched = FALSE, !.dirty = FALSE]
    /\ passes' = Supersede(passes)
    /\ jobs' = jobs \cup Triggered(fields, form, fields', form')
    /\ queue' = Queued(jobs', <<Cont("collect", 0)>>)
    /\ ops' = ops + 1 /\ sync' = TRUE
    /\ Called("resetForm", Fields, FALSE,
              \E f \in Fields : fields[f].value # InitialValue[f])
    /\ UNCHANGED store

\* field.validate(), up to its first await
ValidateField(f) ==
    /\ CallerTurn
    /\ Cardinality(FreeSlots) >= 1 + Reserved
    /\ \E id \in generateRandomId :
        LET ev == [IdlePass.ev EXCEPT ![f] = startValidate(fields, f, fields[f].rules, TRUE)]
        IN  /\ form' = [form EXCEPT !.lock = id, !.pending = TRUE]
            /\ fields' = [fields EXCEPT ![f].pending = TRUE]
            /\ passes' = [Supersede(passes) EXCEPT ![FirstFree] =
                            [IdlePass EXCEPT !.kind = "field", !.pc = startPc(ev),
                                             !.token = id, !.target = f, !.ev = ev,
                                             !.born = ops + 1]]
            /\ jobs' = jobs \cup Triggered(fields, form, fields', form')
            /\ queue' = Queued(jobs', startConts(FirstFree, ev))
    /\ ops' = ops + 1 /\ sync' = TRUE
    /\ Called("validate", {f}, FALSE, FALSE)
    /\ UNCHANGED store

\* validateForm(), up to its first await
ValidateForm ==
    /\ CallerTurn
    /\ Cardinality(FreeSlots) >= 1 + Reserved
    /\ \E id \in generateRandomId :
        LET ev == [f \in Fields |-> startValidate(fields, f, fields[f].rules, TRUE)]
        IN  /\ form' = [form EXCEPT !.lock = id, !.pending = TRUE]
            /\ fields' = [f \in Fields |-> [fields[f] EXCEPT !.pending = TRUE]]
            /\ passes' = [Supersede(passes) EXCEPT ![FirstFree] =
                            [IdlePass EXCEPT !.kind = "form", !.pc = startPc(ev),
                                             !.token = id, !.ev = ev,
                                             !.born = ops + 1]]
            /\ jobs' = jobs \cup Triggered(fields, form, fields', form')
            /\ queue' = Queued(jobs', startConts(FirstFree, ev))
    /\ ops' = ops + 1 /\ sync' = TRUE
    /\ Called("validateForm", Fields, FALSE, FALSE)
    /\ UNCHANGED store

(***************************************************************************)
(* The flush microtask: the queued watcher jobs                             *)
(***************************************************************************)
\* createField's watcher on field.value, for the fields whose job is queued
dirtyWatcher(fs, fm, js) ==
    [f \in Fields |->
        IF f \in js /\ ~fm.ignoreDirty THEN [fs[f] EXCEPT !.dirty = TRUE] ELSE fs[f]]

\* A value with its shape.  A list or a record is an object: it has an
\* identity (ref) besides its content (v); a primitive has the ref 0.
Shapes == {"primitive", "list", "record"}
Shaped(shape, v, ref) == [shape |-> shape, v |-> v, ref |-> ref]
Primitive(v) == Shaped("primitive", v, 0)

\* cloneDeep(value): a primitive is returned as it is, an object is copied
\* into a new object (fresh is the identity of the copy)
cloneDeep(value, fresh) ==
    IF value.shape = "primitive" THEN value ELSE [value EXCEPT !.ref = fresh]

\* x === y
StrictEqual(x, y) ==
    IF x.shape = "primitive" \/ y.shape = "primitive" THEN x = y ELSE x.ref = y.ref

\* deepEqual(x, y): x and y have the same structure and the same content
deepEqual(x, y) == x.shape = y.shape /\ x.v = y.v

\* the test of validationWatcher's filter on one field
unequal(value, prevValue, fresh) ==
    IF value.shape # "list" \/ value.shape = "primitive"
    THEN ~StrictEqual(value, prevValue)
    ELSE ~deepEqual(cloneDeep(value, fresh), prevValue)

\* validationWatcher's filter: the fields whose value is not the snapshot;
\* the values of the engine's fields are primitives
unequalValues(fs) ==
    {f \in Fields : unequal(Primitive(fs[f].value), Primitive(fs[f].prevValue), 0)}

\* validationWatcher up to its first await: the fields after promise(field)
watcherFields(fs, fm) ==
    [f \in Fields |->
        IF f \in unequalValues(fs)
        THEN [fs[f] EXCEPT !.prevValue = fs[f].value,
                           !.pending = IF fm.ignoreValidation THEN fs[f].pending ELSE TRUE]
        ELSE fs[f]]

watcherEvals(fs, fm) ==
    [f \in Fields |->
        IF f \in unequalValues(fs) /\ ~fm.ignoreValidation
        THEN startValidate(fs, f, fs[f].rules, FALSE) ELSE NoEval]

\* the watcher on formState.value.errors
errorsWatcher(fs, fm) ==
    [fm EXCEPT !.valid = (\A f \in Fields : fs[f].valid) /\ Len(fm.errors) = 0]

\* the watcher on pendingArray
pendingWatcher(fs, fm) ==
    [fm EXCEPT !.pending = (\E f \in Fields : fs[f].pending) \/ fm.pending]

Flush ==
    /\ queue # << >> /\ Head(queue).t = "flush"
    /\ "values" \in jobs => FreeSlots # {}
    /\ LET fs1 == dirtyWatcher(fields, form, jobs)
           fm1 == IF (jobs \cap Fields) # {} /\ ~form.ignoreDirty
                  THEN [form EXCEPT !.dirty = TRUE] ELSE form
           fm2 == IF "errors" \in jobs THEN errorsWatcher(fs1, fm1) ELSE fm1
       IN  IF "values" \in jobs
           THEN \E id \in generateRandomId :
                /\ fields' = watcherFields(fs1, fm2)
                /\ form' = pendingWatcher(fields',
                               [fm2 EXCEPT !.lock = id, !.pending = TRUE])
                /\ passes' = [Supersede(passes) EXCEPT ![FirstFree] =
                                [IdlePass EXCEPT !.kind = "watcher",
                                    !.pc = startPc(watcherEvals(fs1, fm2)),
                                    !.token = id, !.ev = watcherEvals(fs1, fm2),
                                    !.born = ops]]
                /\ queue' = Tail(queue) \o startConts(FirstFree, watcherEvals(fs1, fm2))
           ELSE /\ fields' = fs1
                /\ form' = IF "pending" \in jobs THEN pendingWatcher(fs1, fm2) ELSE fm2
                /\ passes' = passes
                /\ queue' = Tail(queue)
    /\ jobs' = {}
    /\ sync' = FALSE
    /\ UNCHANGED <<ops, last>>
    /\ UNCHANGED store

(***************************************************************************)
(* nextTick callbacks                                                       *)
(***************************************************************************)
\* setFields: nextTick(() => formIgnoreDirty = false)
TickDirtyOff ==
    /\ queue # << >> /\ Head(queue).t = "dirtyOff"
    /\ form' = [form EXCEPT !.ignoreDirty = FALSE]
    /\ queue' = Tail(queue)
    /\ sync' = FALSE
    /\ UNCHANGED <<fields, passes, jobs, ops, last>>
    /\ UNCHANGED store

\* reset / resetForm: nextTick(() => { collectErrors(formState); ... })
TickCollect ==
    /\ queue # << >> /\ Head(queue).t = "collect"
    /\ form' = [WithCollected(form, collectErrors(fields, Omitted))
                    EXCEPT !.ignoreDirty = FALSE]
    /\ jobs' = jobs \cup {"errors"}
    /\ queue' = IF jobs = {} THEN Append(Tail(queue), FlushTask) ELSE Tail(queue)
    /\ sync' = FALSE
    /\ UNCHANGED <<fields, passes, ops, last>>
    /\ UNCHANGED store

(***************************************************************************)
(* The suspended validation calls                                           *)
(***************************************************************************)
\* the promise of an async field rule settles, in a task of its own (a timer
\* or an I/O completion): no microtask is queued then
Settle(s, f) ==
    /\ queue = << >>
    /\ passes[s].ev[f].st = "waiting"
    /\ \E i \in 1..Len(passes[s].ev[f].raw) :
        /\ passes[s].ev[f].raw[i] = "promise"
        /\ \E out \in passes[s].ev[f].opts[i] :
            /\ passes' = [passes EXCEPT ![s].ev[f].raw[i] = out, ![s].ev[f].opts[i] = {}]
            /\ queue' = IF Settled(passes'[s].ev[f].raw)
                        THEN Append(queue, Task("fieldDone", s, f)) ELSE queue
    /\ sync' = FALSE
    /\ UNCHANGED <<fields, form, jobs, ops, last>>
    /\ UNCHANGED store

\* createValidateFieldFunction.validate after its await
FieldDone(s, f) ==
    /\ queue # << >> /\ Head(queue) = Task("fieldDone", s, f)
    /\ LET validationResult == validationPromise(passes[s].ev[f].raw)
           current == form.lock = passes[s].token
       IN  /\ fields' = [fields EXCEPT
                    ![f].valid = IF current THEN validationResult.valid ELSE @,
                    ![f].errors = IF current THEN validationResult.errors ELSE @,
                    ![f].pending = FALSE]
           /\ LET ps == [passes EXCEPT
                        ![s].ev[f].st = IF current THEN "applied" ELSE "discarded",
                        ![s].fieldResult = validationResult]
              IN  passes' = IF ps[s].pc = "rejected"
                                /\ \A g \in Fields : ps[s].ev[g].st # "waiting"
                            THEN [ps EXCEPT ![s] = IdlePass] ELSE ps
    /\ jobs' = jobs \cup Triggered(fields, form, fields', form)
    /\ queue' = (IF jobs' # {} /\ jobs = {} THEN Append(Tail(queue), FlushTask)
                 ELSE Tail(queue))
                \o (IF passes[s].pc = "fields" /\ fieldsSettled(passes'[s].ev)
                    THEN <<Cont("formPhase", s)>> ELSE << >>)
    /\ sync' = FALSE
    /\ UNCHANGED <<form, ops, last>>
    /\ UNCHANGED store

\* validateFormInternal({promise: true}), called once the field calls resolved
FormPhase(s) ==
    /\ queue # << >> /\ Head(queue) = Cont("formPhase", s)
    /\ IF form.ignoreValidation
       THEN /\ passes' = [passes EXCEPT ![s].pc = "finish", ![s].result = IgnoredResult]
            /\ form' = form
            /\ jobs' = jobs
            /\ queue' = Append(Tail(queue), Cont("finish", s))
       ELSE LET raw == validateInternal(form.formRules, <<"form">>, FALSE, TRUE)
            IN  /\ passes' = [passes EXCEPT
                        ![s].pc = IF Thrown(raw) THEN "rejecting" ELSE "formRules",
                        ![s].formRaw = raw,
                        ![s].formOpts = [i \in 1..Len(raw) |->
                            IF raw[i] = "promise"
                            THEN Outcomes(form.formRules[i].rule, <<"form">>) ELSE {}]]
                /\ form' = [form EXCEPT !.pending = TRUE]
                /\ jobs' = jobs \cup Triggered(fields, form, fields, form')
                /\ queue' = (IF jobs' # {} /\ jobs = {}
                             THEN Append(Tail(queue), FlushTask) ELSE Tail(queue))
                            \o (IF Thrown(raw) THEN <<Cont("reject", s)>>
                                ELSE IF Settled(raw) THEN <<Cont("formDone", s)>>
                                ELSE << >>)
    /\ sync' = FALSE
    /\ UNCHANGED <<fields, ops, last>>
    /\ UNCHANGED store

\* the promise of an async form rule settles
FormSettle(s) ==
    /\ queue = << >>
    /\ passes[s].pc = "formRules"
    /\ \E i \in 1..Len(passes[s].formRaw) :
        /\ passes[s].formRaw[i] = "promise"
        /\ \E out \in passes[s].formOpts[i] :
            /\ passes' = [passes EXCEPT ![s].formRaw[i] = out, ![s].formOpts[i] = {}]
            /\ queue' = IF Settled(passes'[s].formRaw)
                        THEN Append(queue, Cont("formDone", s)) ELSE queue
    /\ sync' = FALSE
    /\ UNCHANGED <<fields, form, jobs, ops, last>>
    /\ UNCHANGED store

\* validateFormInternal's cb: collectErrors(formState, validationResults)
FormDone(s) ==
    /\ queue # << >> /\ Head(queue) = Cont("formDone", s)
    /\ LET collected ==
               collectErrors(fields, Given(validationPromise(passes[s].formRaw)))
       IN  /\ form' = WithCollected(form, collected)
           /\ passes' = [passes EXCEPT ![s].pc = "finish", ![s].result = collected]
    /\ jobs' = jobs \cup {"errors"}
    /\ queue' = Append(IF jobs = {} THEN Append(Tail(queue), FlushTask) ELSE Tail(queue),
                       Cont("finish", s))
    /\ sync' = FALSE
    /\ UNCHANGED <<fields, ops, last>>
    /\ UNCHANGED store

\* the tail of validateField / validateForm / validationWatcher: the call
\* resolves; it returns fieldResult (validateField) or result (validateForm)
Finish(s) ==
    /\ queue # << >> /\ Head(queue) = Cont("finish", s)
    /\ form' = [form EXCEPT !.pending = FALSE,
                    !.ignoreValidation =
                        IF passes[s].kind = "watcher" THEN FALSE ELSE @]
    /\ passes' = [passes EXCEPT ![s] = IdlePass]
    /\ jobs' = jobs \cup Triggered(fields, form, fields, form')
    /\ queue' = IF jobs' # {} /\ jobs = {} THEN Append(Tail(queue), FlushTask)
                ELSE Tail(queue)
    /\ sync' = FALSE
    /\ UNCHANGED <<fields, ops, last>>
    /\ UNCHANGED store

\* The call rejects with the exception a rule threw: nothing after the
\* await runs, and the field calls still suspended go on by themselves.
Reject(s) ==
    /\ queue # << >> /\ Head(queue) = Cont("reject", s)
    /\ passes' = IF \A g \in Fields : passes[s].ev[g].st # "waiting"
                 THEN [passes EXCEPT ![s] = IdlePass]
                 ELSE [passes EXCEPT ![s].pc = "rejected"]
    /\ queue' = Tail(queue)
    /\ sync' = FALSE
    /\ UNCHANGED <<fields, form, jobs, ops, last>>
    /\ UNCHANGED store

(***************************************************************************)
(* Specification                                                            *)
(***************************************************************************)
FieldSets == (SUBSET Fields) \ {{}}

Next ==
    \/ \E f \in Fields, v \in Values : SetValue(f, v)
    \/ \E d \in FieldSets, setDirty \in OptionalBoolean, validate \in OptionalBoolean :
        \E values \in [d -> Values] : SetFields(values, setDirty, validate)
    \/ \E keys \in RuleKeys : SetRules(keys)
    \/ \E f \in Fields : Focus(f)
    \/ \E f \in Fields : Blur(f)
    \/ \E f \in Fields : ResetField(f)
    \/ ResetForm
    \/ \E f \in Fields : ValidateField(f)
    \/ ValidateForm
    \/ Flush
    \/ TickDirtyOff
    \/ TickCollect
    \/ \E s \in Slots, f \in Fields : Settle(s, f)
    \/ \E s \in Slots, f \in Fields : FieldDone(s, f)
    \/ \E s \in Slots : FormPhase(s)
    \/ \E s \in Slots : FormSettle(s)
    \/ \E s \in Slots : FormDone(s)
    \/ \E s \in Slots : Finish(s)
    \/ \E s \in Slots : Reject(s)

Spec == Init /\ [][Next]_vars

(***************************************************************************)
(* Properties                                                               *)
(***************************************************************************)
Resolves(s, f) ==
    passes[s].ev[f].st = "waiting" /\ passes'[s].ev[f].st \in {"applied", "discarded"}

SameValidity(fs, fs2) ==
    \A g \in Fields : fs2[g].valid = fs[g].valid /\ fs2[g].errors = fs[g].errors

InFlight == \E s \in Slots : passes[s].kind # "idle"

\* C1: when a field result of a pass resolves after a later pass has started
\* (installed a new token), the result is discarded: the step changes neither
\* valid nor errors of any field.
C1_StaleFieldResultDiscarded ==
    [][\A s \in Slots, f \in Fields :
        (passes[s].superseded /\ Resolves(s, f)) => SameValidity(fields, fields')]_vars

\* C2: when the form rules of a pass resolve and the pass no longer holds the
\* form's current token, the result is discarded: form.errors, form.errorFields
\* and form.valid stay as they are.
C2_StaleFormResultDiscarded ==
    [][\A s \in Slots :
        (passes[s].pc = "formRules" /\ passes'[s].pc = "finish"
            /\ passes[s].token # form.lock)
        => /\ form'.errors = form.errors
           /\ form'.errorFields = form.errorFields
           /\ form'.valid = form.valid]_vars

\* C3: if pass P1 on a field is still waiting for its rule when a later pass P2
\* on the same field has already resolved with an error E2, then at the moment
\* P1 resolves the field has errors [E2] and is invalid, whatever P1's rule
\* returned.
C3_NewerResultWins ==
    [][\A s1 \in Slots, s2 \in Slots, f \in Fields :
        LET r2 == validationPromise(passes[s2].ev[f].raw)
        IN  (/\ s1 # s2
             /\ passes[s1].superseded /\ ~passes[s2].superseded
             /\ passes[s2].ev[f].st \in {"applied", "discarded"} /\ ~r2.valid
             /\ Resolves(s1, f))
            => fields'[f].errors = r2.errors /\ ~fields'[f].valid]_vars

\* C4: field.pending is true in every state, taken when no microtask is left
\* to run, in which a pass that started evaluating the field has not yet
\* resolved its result for it.
C4_FieldPendingAccurate ==
    (queue = << >>) =>
        \A s \in Slots, f \in Fields :
            passes[s].ev[f].st = "waiting" => fields[f].pending

\* C5: whenever no microtask is left to run, form.pending is true iff a field
\* is pending or a pass of the form is still in flight.
C5_FormPendingAccurate ==
    (queue = << >>) =>
        (form.pending <=> ((\E f \in Fields : fields[f].pending) \/ InFlight))

\* C6: once resetForm() was the latest operation and all outstanding work has
\* settled, every field has its construction-time value, is neither dirty nor
\* touched, has no errors and is valid, and so is the form.
C6_ResetFormRestores ==
    (last.op = "resetForm" /\ Quiescent /\ jobs = {})
    => /\ \A f \in Fields :
            /\ fields[f].value = InitialValue[f]
            /\ ~fields[f].dirty /\ ~fields[f].touched
            /\ fields[f].errors = << >> /\ fields[f].valid
       /\ ~form.dirty /\ ~form.touched
       /\ form.errors = << >> /\ form.valid

\* C7: when the validateForm() call that was the latest operation resolves, it
\* has evaluated every field, the valid it returns is true iff no field rule and
\* no form rule produced an error, and the errors and errorFields it returns
\* are those of the form.
C7_ValidateFormResult ==
    [][\A s \in Slots :
        (/\ passes[s].kind = "form" /\ passes[s].born = ops
         /\ last.op = "validateForm"
         /\ passes[s].pc = "finish" /\ passes'[s].kind = "idle")
        => /\ \A f \in Fields : passes[s].ev[f].st # "none"
           /\ passes[s].result.valid <=>
                (/\ \A f \in Fields :
                        validationPromise(passes[s].ev[f].raw).valid
                 /\ validationPromise(passes[s].formRaw).valid)
           /\ passes[s].result.errors = form'.errors
           /\ passes[s].result.errorFields = form'.errorFields]_vars

\* C8: after setFields({x: v}, {setDirty: false, validate: false}) with v other
\* than x's value, and until the next operation, x.dirty and form.dirty are what
\* they were, and the validation pass the assignment triggers evaluates no field
\* rule and no form rule (so it writes no field's valid or errors).
C8_SetFieldsBypasses ==
    (last.op = "setFields" /\ last.bypass /\ last.changed
        /\ Cardinality(last.named) = 1)
    => /\ \A x \in last.named : fields[x].dirty <=> x \in last.dirty0
       /\ form.dirty = last.formDirty0
       /\ \A s \in Slots :
            (passes[s].kind = "watcher" /\ passes[s].born = ops)
            => /\ \A f \in Fields : passes[s].ev[f].st = "none"
               /\ passes[s].pc # "formRules" /\ passes[s].formRaw = << >>

\* C9: a direct assignment x.value = v2 made after a setFields call with
\* {setDirty: false, validate: false} has settled marks x and the form dirty
\* and has x's rules evaluated by the validation pass it triggers.
C9_AssignmentAfterSetFields ==
    \A x \in Fields :
        (last.op = "setValue" /\ x \in last.named /\ last.hadBypass /\ last.quiet)
        => /\ x \notin jobs => (fields[x].dirty /\ form.dirty)
           /\ \A s \in Slots :
                (passes[s].kind = "watcher" /\ passes[s].born = ops)
                => passes[s].ev[x].st # "none"

\* C10: a field y assigned directly in the tick of a setFields call with
\* {setDirty: false, validate: false} that does not name y is marked dirty, as
\* is the form, and is validated by the pass the assignment triggers.
C10_BypassOnlyNamedFields ==
    \A y \in Fields :
        (/\ last.op = "setValue" /\ y \in last.named
         /\ last.prevBypass /\ y \notin last.prevNamed /\ last.active)
        => /\ y \notin jobs => (fields[y].dirty /\ form.dirty)
           /\ \A s \in Slots :
                (passes[s].kind = "watcher" /\ passes[s].born = ops)
                => passes[s].ev[y].st # "none"

\* C11: after setFields(values) called without an options argument, and until
\* the next operation, the named fields and the form have the dirty flags they
\* had, and the validation pass the change triggers evaluates no rule.
C11_SetFieldsDefaults ==
    (last.op = "setFieldsNoOptions")
    => /\ \A x \in last.named : fields[x].dirty <=> x \in last.dirty0
       /\ form.dirty = last.formDirty0
       /\ \A s \in Slots :
            (passes[s].kind = "watcher" /\ passes[s].born = ops)
            => /\ \A f \in Fields : passes[s].ev[f].st = "none"
               /\ passes[s].pc # "formRules" /\ passes[s].formRaw = << >>

\* the rules of a list that are declared with autoValidate: false
ManualRules(rules) == {i \in 1..Len(rules) : ~AutoValidateOf(rules[i])}

\* what a call of a rule for field f can return
CallResults(rule, f) ==
    {Invoke(rule.rule, <<v, f>>) : v \in Values}
    \cup UNION {Outcomes(rule.rule, <<v, f>>) : v \in Values}

Elements(seq) == {seq[i] : i \in 1..Len(seq)}

\* in every pass: an automatic pass has called no autoValidate: false rule (its
\* place in the results is undefined), an explicit pass has called each of them
ManualRulesCalled ==
    \A s \in Slots, f \in Fields :
        passes[s].ev[f].st # "none" =>
            \A i \in ManualRules(passes[s].ev[f].rules) :
                IF passes[s].kind = "watcher"
                THEN passes[s].ev[f].raw[i] = "undefined"
                ELSE passes[s].ev[f].raw[i]
                        \in CallResults(passes[s].ev[f].rules[i], f) \ {"undefined"}

ErrorNames == {"error1", "error2"}
ErrorLists == UNION {[1..n -> ErrorNames] : n \in 0..MaxLen}

\* a field or form-level result as the engine writes it: valid iff no error
ResultOf(errors) == [valid |-> errors = << >>, errors |-> errors]

Arrange(fs, fn, args) ==
    /\ fields = fs
    /\ form = formState(<< >>)
    /\ passes = [s \in Slots |-> IdlePass]
    /\ jobs = {}
    /\ queue = << >>
    /\ ops = 0
    /\ sync = TRUE
    /\ store = EmptyStore
    /\ last = [op |-> fn, args |-> args, done |-> FALSE, result |-> << >>]

Pristine == [f \in Fields |-> createField(f, << >>)]

\* useForm({a, b}); a.errors = ...; a.valid = ...; collectErrors(formState, r)
CollectErrorsCase ==
    \E e \in [Fields -> ErrorLists] :
        \E r \in {Omitted} \cup {Given(ResultOf(fe)) : fe \in ErrorLists} :
            Arrange([f \in Fields |-> [Pristine[f] EXCEPT !.errors = e[f],
                                                     !.valid = e[f] = << >>]],
                    "collectErrors", r)

Returned(result) == last' = [last EXCEPT !.done = TRUE, !.result = result]

CollectErrors ==
    /\ last.op = "collectErrors" /\ ~last.done
    /\ LET result == collectErrors(fields, last.args)
       IN  /\ form' = WithCollected(form, result)
           /\ Returned(result)
    /\ UNCHANGED <<fields, passes, jobs, queue, ops, sync>>
    /\ UNCHANGED store

\* The values a rule can return, as the evaluator sees them: the booleans,
\* undefined, null, an error string, the empty string, the number 0 and an
\* object.
RawValues == {"true", "false", "undefined", "null", "some error", "", "0",
              "{someOther: error}"}
RawLists == UNION {[1..n -> RawValues] : n \in 0..MaxLen}

\* createInternalValidationResults(x) for a value or a list x
CreateResultsCase ==
    \/ \E v \in RawValues :
        Arrange(Pristine, "createInternalValidationResults", Scalar(v))
    \/ \E l \in RawLists :
        Arrange(Pristine, "createInternalValidationResults", Array(l))

CreateInternalValidationResults ==
    /\ last.op = "createInternalValidationResults" /\ ~last.done
    /\ Returned(createInternalValidationResults(last.args))
    /\ UNCHANGED <<fields, form, passes, jobs, queue, ops, sync, store>>

\* The entries of a rule list: bare callables and {rule, autoValidate}
\* wrappers, with and without the autoValidate member.
LibKinds == {"required", "taken", "deferred", "undefined"}
RuleEntries ==
    {Fn(k) : k \in LibKinds}
    \cup {[rule |-> Fn(k)] : k \in LibKinds}
    \cup {[rule |-> Fn(k), autoValidate |-> b] : k \in LibKinds, b \in BOOLEAN}
RuleLists == UNION {[1..n -> RuleEntries] : n \in 0..MaxLen}

\* createValidationObject(rules), rules being undefined or a rule list
CreateValidationObjectCase ==
    \E fn \in {Omitted} \cup {Given(l) : l \in RuleLists} :
        Arrange(Pristine, "createValidationObject", fn)

\* normalizes the argument, and normalizes what that returned once more
CreateValidationObject ==
    /\ last.op = "createValidationObject" /\ ~last.done
    /\ LET once == createValidationObject(last.args)
       IN  Returned([once |-> once, twice |-> createValidationObject(Given(once))])
    /\ UNCHANGED <<fields, form, passes, jobs, queue, ops, sync, store>>

\* validateInternal(rules, [value, name], {alwaysValidate}) on a normalized
\* rule list or on undefined
ValidateInternalCase ==
    \E obj \in {Omitted} \cup {Given(createValidationObject(Given(l))) : l \in RuleLists},
       v \in Values, alwaysValidate \in BOOLEAN :
        Arrange(Pristine, "validateInternal",
                [obj |-> obj, args |-> <<v, "a">>, alwaysValidate |-> alwaysValidate])

\* the call, and how many times it called each rule
ValidateInternal ==
    /\ last.op = "validateInternal" /\ ~last.done
    /\ LET a == last.args
       IN  Returned([result |-> validateInternalSync(a.obj, a.args, a.alwaysValidate),
                     calls |-> IF a.obj = Omitted THEN << >>
                               ELSE [i \in 1..Len(a.obj[1]) |->
                                        Calls(a.obj[1][i], a.args, a.alwaysValidate, FALSE)]])
    /\ UNCHANGED <<fields, form, passes, jobs, queue, ops, sync, store>>

\* The identities of the objects of a case: the value the caller assigned,
\* the snapshot the engine cloned from the value it saw last, and the clone
\* the filter makes.
CallerRef == 1
SnapshotRef == 2
FilterRef == 3

\* A form whose fields hold values of every shape, each with the snapshot of
\* the value the watcher saw last: the same content, or another content
UnequalValuesCase ==
    \E shape \in [Fields -> Shapes], v \in [Fields -> Values], pv \in [Fields -> Values] :
        Arrange([f \in Fields |->
                    [Pristine[f] EXCEPT
                        !.value = cloneDeep(Shaped(shape[f], v[f], 0), CallerRef),
                        !.prevValue = cloneDeep(Shaped(shape[f], pv[f], 0), SnapshotRef)]],
                "unequalValues", << >>)

\* validationWatcher's filter on the fields of the case
UnequalValues ==
    /\ last.op = "unequalValues" /\ ~last.done
    /\ Returned({f \in Fields : unequal(fields[f].value, fields[f].prevValue, FilterRef)})
    /\ UNCHANGED <<fields, form, passes, jobs, queue, ops, sync, store>>

\* An entry of the initial state given to useForm: a primitive, a list (of
\* records, each with its keys in order, or of primitives), or a field
\* description {value: ...}.  "of" and "ofItems" describe the value a
\* description holds.
Entry(kind, items, records, of, ofItems) ==
    [kind |-> kind, items |-> items, records |-> records, of |-> of, ofItems |-> ofItems]
PrimitiveEntry == Entry("primitive", << >>, FALSE, "none", << >>)
ListEntry(items) == Entry("list", items, TRUE, "none", << >>)
PrimitiveListEntry == Entry("list", << >>, FALSE, "none", << >>)
Description(value) == Entry("description", << >>, FALSE, value.kind, value.items)

ElementKeys == << <<"street">>, <<"street", "city">> >>
Entries ==
    {PrimitiveEntry, PrimitiveListEntry}
    \cup {ListEntry(<<ElementKeys[i]>>) : i \in 1..Len(ElementKeys)}
    \cup {ListEntry(<<ElementKeys[1], ElementKeys[1]>>)}
    \cup {Description(PrimitiveEntry), Description(ListEntry(<<ElementKeys[2]>>))}

\* value?.hasOwnProperty("value")
HasOwnValue(value) == value.kind = "description"

\* getInitState: the fields it returns for the entries of the initial state
initStateFields(initState) ==
    [key \in DOMAIN initState |->
        IF HasOwnValue(initState[key]) THEN initState[key]
        ELSE Description(initState[key])]

\* Array.isArray(field) && field.every((item) => typeof item === "object" && item !== null)
isArrayField(field) == field.kind = "list" /\ field.records

RECURSIVE Flatten(_)
Flatten(seqs) == IF seqs = << >> THEN << >> ELSE Head(seqs) \o Flatten(Tail(seqs))

\* createFields: the names createField is called with, in order
RECURSIVE createFields(_, _)
createFields(fieldsOf, order) ==
    IF order = << >> THEN << >>
    ELSE (IF isArrayField(fieldsOf[Head(order)])
          THEN Flatten(fieldsOf[Head(order)].items)
          ELSE <<Head(order)>>)
         \o createFields(fieldsOf, Tail(order))

\* useForm(initState) with entries of every kind
CreateFieldsCase ==
    \E initState \in [Fields -> Entries] :
        Arrange(Pristine, "createFields", <<initState>>)

\* useForm: getInitState(initState), then createFields(formState)
CreateFields ==
    /\ last.op = "createFields" /\ ~last.done
    /\ Returned(createFields(initStateFields(last.args[1]), FieldOrder))
    /\ UNCHANGED <<fields, form, passes, jobs, queue, ops, sync, store>>

LibInit ==
    \/ CreateFieldsCase
    \/ UnequalValuesCase
    \/ CollectErrorsCase
    \/ CreateResultsCase
    \/ CreateValidationObjectCase
    \/ ValidateInternalCase

LibNext ==
    \/ CreateFields
    \/ UnequalValues
    \/ CollectErrors
    \/ CreateInternalValidationResults
    \/ CreateValidationObject
    \/ ValidateInternal

LibSpec == LibInit /\ [][LibNext]_vars

\* C13: collectErrors returns valid iff every field is valid and the form-level
\* result is valid (valid when omitted), and errors = the fields' errors in
\* declaration order followed by the form-level errors.
C13_CollectErrorsValidAndErrors ==
    (last.op = "collectErrors" /\ last.done)
    => LET formLevel == IF last.args = << >> THEN [valid |-> TRUE, errors |-> << >>]
                        ELSE last.args[1]
       IN  /\ last.result.valid
                <=> (fields["a"].valid /\ fields["b"].valid /\ formLevel.valid)
           /\ last.result.errors
                = fields["a"].errors \o fields["b"].errors \o formLevel.errors

\* C13 witness: both fields and the form-level result carry errors
C13_AllSourcesHaveErrors ==
    /\ last.op = "collectErrors" /\ last.done
    /\ last.args # << >> /\ last.args[1].errors = <<"error1">>
    /\ fields["a"].errors = <<"error2", "error1">> /\ fields["b"].errors = <<"error2">>
    /\ last.result.errors = <<"error2", "error1", "error2", "error1">>
    /\ ~last.result.valid

\* C14: after collectErrors, errorFields (returned and on the form) has exactly
\* the invalid fields as keys, each mapped to that field's errors.
C14_ErrorFieldsExactlyInvalid ==
    (last.op = "collectErrors" /\ last.done)
    => /\ DOMAIN last.result.errorFields = {f \in Fields : ~fields[f].valid}
       /\ \A f \in DOMAIN last.result.errorFields :
            last.result.errorFields[f] = fields[f].errors
       /\ form.errorFields = last.result.errorFields

\* C14 witness: one field invalid, the other valid
C14_OneInvalidField ==
    /\ last.op = "collectErrors" /\ last.done
    /\ ~fields["a"].valid /\ fields["b"].valid
    /\ DOMAIN form.errorFields = {"a"}

\* C15: right after construction there is one field per key, each with
\* valid = true, errors = [], dirty = touched = focused = pending = false, the form
\* has valid = true, errors = [], dirty = touched = pending = false, and no rule
\* has been evaluated and no evaluation is scheduled.
C15_ConstructionState ==
    (last.op = "useForm")
    => /\ DOMAIN fields = Fields
       /\ \A f \in Fields :
            /\ fields[f].valid /\ fields[f].errors = << >>
            /\ ~fields[f].dirty /\ ~fields[f].touched
            /\ ~fields[f].focused /\ ~fields[f].pending
            /\ fields[f].value = InitialValue[f]
       /\ form.valid /\ form.errors = << >> /\ DOMAIN form.errorFields = {}
       /\ ~form.dirty /\ ~form.touched /\ ~form.pending
       /\ \A s \in Slots : passes[s].kind = "idle"
       /\ jobs = {} /\ queue = << >>

\* C15 witness: a form just constructed, one of whose rules fails on the
\* initial value
C15_FailingRuleAtConstruction ==
    /\ last.op = "useForm"
    /\ \E f \in Fields : \E i \in 1..Len(fields[f].rules) :
        Invoke(fields[f].rules[i].rule, <<fields[f].value, f>>) = "required"

(***************************************************************************)
(* useForm and the registry of named forms                                  *)
(***************************************************************************)
reservedKeys == {"formState", "values", "context"}

\* The initial states given to useForm: the keys, in declaration order.
InitStates ==
    { <<"a">>, <<"a", "b">>, <<"formState">>, <<"a", "values">>, <<"context", "b">> }

Keys(initState) == {initState[i] : i \in 1..Len(initState)}

\* getInitState: the message of the error it throws, or "none"
getInitState(initState) ==
    IF initState = Omitted
    THEN "UseForm: You must provide an initial state"
    ELSE IF Keys(initState[1]) \cap reservedKeys # {}
         THEN "UseForm: You cannot use the reserved key"
         ELSE "none"

Outcome(thrown, result, created, st) ==
    [thrown |-> thrown, result |-> result, created |-> created, store |-> st]

\* useForm that enters the name in the registry before it reads the initial state
useFormRegisterFirst(st, formName, initState, handle) ==
    IF initState = Omitted /\ formName # Omitted
    THEN IF st[formName[1]] = NoForm
         THEN Outcome("UseForm: Form does not exist", NoForm, FALSE, st)
         ELSE Outcome("none", st[formName[1]], FALSE, st)
    ELSE LET st2 == IF formName # Omitted /\ formName[1] # ""
                    THEN [st EXCEPT ![formName[1]] = handle] ELSE st
         IN  IF getInitState(initState) # "none"
             THEN Outcome(getInitState(initState), NoForm, FALSE, st2)
             ELSE Outcome("none", handle, TRUE, st2)

\* useForm(formName?, initState?): what the call throws or returns, whether it
\* built a form, and the registry it leaves; handle is the form it would build
useFormCall(st, formName, initState, handle) ==
    LET shouldUseState == formName # Omitted
    IN  IF initState = Omitted /\ shouldUseState
        THEN IF st[formName[1]] = NoForm
             THEN Outcome("UseForm: Form does not exist", NoForm, FALSE, st)
             ELSE Outcome("none", st[formName[1]], FALSE, st)
        ELSE IF getInitState(initState) # "none"
             THEN Outcome(getInitState(initState), NoForm, FALSE, st)
             ELSE Outcome("none", handle, TRUE,
                          IF formName # Omitted /\ formName[1] # ""
                          THEN [st EXCEPT ![formName[1]] = handle] ELSE st)

NoLatest == [n \in Names |-> NoForm]

RegistryInit ==
    /\ fields = Pristine
    /\ form = formState(<< >>)
    /\ passes = [s \in Slots |-> IdlePass]
    /\ jobs = {}
    /\ queue = << >>
    /\ ops = 0
    /\ sync = TRUE
    /\ store = EmptyStore
    /\ last = [op |-> "none", formName |-> Omitted, initState |-> Omitted,
               out |-> Outcome("none", NoForm, FALSE, EmptyStore),
               store0 |-> EmptyStore, latest0 |-> NoLatest, latest |-> NoLatest]

\* A call of useForm; last.latest keeps, per name, the handle returned by the
\* latest useForm(name, initState) that returned.
UseForm(formName, initState) ==
    /\ ops < MaxForms
    /\ LET out == useFormCall(store, formName, initState, ops + 1)
       IN  /\ store' = out.store
           /\ last' = [op |-> "useForm", formName |-> formName,
                       initState |-> initState, out |-> out, store0 |-> store,
                       latest0 |-> last.latest,
                       latest |-> IF out.created /\ formName # Omitted
                                  THEN [last.latest EXCEPT ![formName[1]] = out.result]
                                  ELSE last.latest]
    /\ ops' = ops + 1
    /\ UNCHANGED <<fields, form, passes, jobs, queue, sync>>

RegistryNext ==
    \E formName \in {Omitted} \cup {Given(n) : n \in Names},
       initState \in {Omitted} \cup {Given(i) : i \in InitStates} :
        UseForm(formName, initState)

RegistrySpec == RegistryInit /\ [][RegistryNext]_vars

\* C16: useForm() without initial state, useForm with an initial state that has
\* a reserved key, and useForm(name) with a name that is not registered each
\* throw, build no form and leave the registry as it was.
C16_UseFormThrows ==
    (/\ last.op = "useForm"
     /\ \/ last.formName = Omitted /\ last.initState = Omitted
        \/ last.initState # Omitted
            /\ Keys(last.initState[1]) \cap {"formState", "values", "context"} # {}
        \/ last.formName # Omitted /\ last.initState = Omitted
            /\ last.store0[last.formName[1]] = NoForm)
    => /\ last.out.thrown # "none"
       /\ ~last.out.created /\ last.out.result = NoForm
       /\ store = last.store0

\* C16 witness: a named useForm with a reserved key, the name being registered
C16_ReservedKeyOnRegisteredName ==
    /\ last.op = "useForm" /\ last.formName = Given("login")
    /\ last.initState = Given(<<"a", "values">>)
    /\ last.store0["login"] # NoForm
    /\ last.out.thrown = "UseForm: You cannot use the reserved key"
    /\ store = last.store0

\* C17: useForm(name) returns the handle returned by the latest
\* useForm(name, initialState), and useForm(name, initialState2) makes its
\* own handle the registered one.
C17_NamedFormShared ==
    (last.op = "useForm" /\ last.formName # Omitted)
    => /\ (last.initState = Omitted /\ last.latest0[last.formName[1]] # NoForm)
            => /\ last.out.thrown = "none"
               /\ last.out.result = last.latest0[last.formName[1]]
       /\ (last.initState # Omitted /\ last.out.thrown = "none")
            => store[last.formName[1]] = last.out.result

\* what a raw value contributes to the errors
Contribution(v) ==
    CASE v \in {"true", "undefined", "null"} -> << >>
      [] v = "false" -> <<"not valid">>
      [] OTHER -> <<v>>

RECURSIVE Contributions(_)
Contributions(list) ==
    IF list = << >> THEN << >>
    ELSE Contribution(Head(list)) \o Contributions(Tail(list))

C19_NormalizationIdempotent ==
    (last.op = "createValidationObject" /\ last.done)
    => /\ last.result.twice = last.result.once
       /\ last.args = << >> => last.result.once = << >>
       /\ last.args # << >>
            => /\ Len(last.result.once) = Len(last.args[1])
               /\ \A i \in 1..Len(last.args[1]) :
                    LET entry == last.args[1][i]
                        rule == last.result.once[i]
                    IN  IF "rule" \in DOMAIN entry
                        THEN /\ rule.rule = entry.rule
                             /\ ("autoValidate" \in DOMAIN entry)
                                    <=> ("autoValidate" \in DOMAIN rule)
                             /\ "autoValidate" \in DOMAIN entry
                                    => rule.autoValidate = entry.autoValidate
                        ELSE rule = [rule |-> entry]

\* C19 witness: a list of a bare callable and a wrapper with autoValidate: false
C19_MixedRuleList ==
    /\ last.op = "createValidationObject" /\ last.done
    /\ last.args = <<  <<[call |-> "required"],
                         [rule |-> [call |-> "taken"], autoValidate |-> FALSE]>>  >>
    /\ last.result.once = <<[rule |-> [call |-> "required"]],
                            [rule |-> [call |-> "taken"], autoValidate |-> FALSE]>>

\* a rule whose callable is a plain function that returns its verdict
SynchronousRule(rule) == rule.rule.call = "required"

\* the verdict of the synchronous rule "required" on a value
RequiredVerdict(v) == IF v = 0 THEN <<"required">> ELSE << >>

\* the rules of a list that an evaluation runs: autoValidate is not false, or
\* the evaluation is one with alwaysValidate
RunRules(obj, alwaysValidate) ==
    {i \in 1..Len(obj) :
        alwaysValidate \/ "autoValidate" \notin DOMAIN obj[i] \/ obj[i].autoValidate}

RECURSIVE ErrorsOf(_, _, _, _)
ErrorsOf(obj, from, run, v) ==
    IF from > Len(obj) THEN << >>
    ELSE (IF from \in run /\ SynchronousRule(obj[from])
          THEN RequiredVerdict(v) ELSE << >>)
         \o ErrorsOf(obj, from + 1, run, v)

\* C20 (amended): in a synchronous evaluation (promise false) no async
\* function is called, a plain function that returns a promise contributes
\* nothing, and the errors of the result are exactly the errors of the
\* synchronous rules the evaluation runs, in rule order; a rule with
\* autoValidate: false is run only under alwaysValidate.
C20_SyncEvaluation ==
    (last.op = "validateInternal" /\ last.done /\ last.args.obj # << >>)
    => LET obj == last.args.obj[1]
       IN  /\ \A i \in 1..Len(obj) :
                obj[i].rule.call = "taken" => last.result.calls[i] = 0
           /\ last.result.result.errors
                = ErrorsOf(obj, 1, RunRules(obj, last.args.alwaysValidate),
                           last.args.args[1])
           /\ last.result.result.valid <=> last.result.result.errors = << >>

\* C20 witness: a failing synchronous rule next to an async function
C20_SyncNextToAsync ==
    /\ last.op = "validateInternal" /\ last.done
    /\ last.args.obj = << <<[rule |-> [call |-> "taken"]],
                            [rule |-> [call |-> "required"]]>> >>
    /\ last.args.args[1] = 0
    /\ last.result.result.errors = <<"required">>
    /\ last.result.calls[1] = 0

\* C20 as stated: the errors of the result are the errors of all the
\* synchronous rules of the list.
C20_AllSynchronousRules ==
    (last.op = "validateInternal" /\ last.done /\ last.args.obj # << >>)
    => LET obj == last.args.obj[1]
       IN  last.result.result.errors
            = ErrorsOf(obj, 1, 1..Len(obj), last.args.args[1])

Rejected(raw) == \E i \in 1..Len(raw) : raw[i] = "rejected"

\* C21: when the promise of a rule rejects, the evaluation resolves to
\* {valid: true, errors: []} whatever the other rules returned: a field
\* evaluation hands that result to the field, a form-level evaluation hands it
\* to the aggregator, and the pass goes on to its end.
C21_FailOpen ==
    [][\A s \in Slots :
        /\ \A f \in Fields :
            (Resolves(s, f) /\ Rejected(passes[s].ev[f].raw))
            => /\ passes'[s].fieldResult = [valid |-> TRUE, errors |-> << >>]
               /\ passes'[s].ev[f].st = "applied"
                    => fields'[f].valid /\ fields'[f].errors = << >>
        /\ (passes[s].pc = "formRules" /\ passes'[s].pc # "formRules"
                /\ Rejected(passes[s].formRaw))
            => /\ passes'[s].pc = "finish"
               /\ passes'[s].result.errors = FlatErrors(fields, FieldOrder)
               /\ passes'[s].result.valid <=> \A f \in Fields : fields[f].valid]_vars

\* C21 witness: a field evaluation in which one rule returned an error and
\* another rejected has been written to the field
C21_ErrorNextToRejection ==
    \E s \in Slots :
        /\ passes[s].ev["a"].st = "applied"
        /\ passes[s].ev["a"].raw = <<"required", "rejected">>
        /\ passes[s].fieldResult = [valid |-> TRUE, errors |-> << >>]

\* the rules of field f throw when they are called on its value
FieldRuleThrows(f) ==
    \E i \in 1..Len(fields[f].rules) :
        fields[f].rules[i].rule.call = "throwing" /\ fields[f].value = 1

FormRuleThrows ==
    \E i \in 1..Len(form.formRules) : form.formRules[i].rule.call = "formThrowing"

Explicit(s) == passes[s].kind \in {"field", "form"}

\* C22: when field.validate() or validateForm() calls a rule that throws, the
\* engine does not catch the exception: the call takes no further step of its
\* own and its promise rejects.
C22_ThrowRejects ==
    [][\A s \in Slots :
        /\ (passes[s].kind = "idle" /\ passes'[s].kind \in {"field", "form"}
                /\ \E f \in Fields : passes'[s].ev[f].st # "none" /\ FieldRuleThrows(f))
            => passes'[s].pc = "rejecting"
        /\ (Explicit(s) /\ passes[s].pc = "fields" /\ passes'[s].pc # "fields"
                /\ ~form.ignoreValidation /\ FormRuleThrows)
            => passes'[s].pc = "rejecting"
        /\ (Explicit(s) /\ passes[s].pc = "rejecting")
            => /\ passes'[s].pc \in {"rejecting", "rejected", "idle"}
               /\ passes'[s].pc # "rejecting" => Head(queue) = Cont("reject", s)]_vars

\* C22 witness: validateForm() has rejected because a rule of field a threw,
\* while its call for field b is still suspended
C22_RejectedValidateForm ==
    \E s \in Slots :
        /\ passes[s].kind = "form" /\ passes[s].pc = "rejected"
        /\ passes[s].ev["a"].st = "threw" /\ passes[s].ev["b"].st = "waiting"

\* the step is the caller operation op on field f
Operation(op, f) == ops' = ops + 1 /\ last'.op = op /\ f \in last'.named

C24_FormFlagsSticky ==
    [][((form.dirty /\ ~form'.dirty) \/ (form.touched /\ ~form'.touched))
        => (ops' = ops + 1 /\ last'.op = "resetForm")]_vars

\* C24 witness: the form is still dirty after the reset of its only dirty field
C24_DirtyAfterFieldReset ==
    /\ last.op = "reset" /\ queue = << >>
    /\ form.dirty /\ \A f \in Fields : ~fields[f].dirty

\* C25: field.reset() sets the field's value to its construction-time value,
\* its dirty, touched and focused to false, its errors to [] and its valid to
\* true, and leaves value, dirty, touched, valid and errors of the other
\* fields as they were.
C25_FieldReset ==
    [][\A f \in Fields :
        (ops' = ops + 1 /\ last'.op = "reset" /\ last'.named = {f})
        => /\ fields'[f].value = InitialValue[f]
           /\ ~fields'[f].dirty /\ ~fields'[f].touched /\ ~fields'[f].focused
           /\ fields'[f].errors = << >> /\ fields'[f].valid
           /\ \A g \in Fields \ {f} :
                /\ fields'[g].value = fields[g].value
                /\ fields'[g].dirty = fields[g].dirty
                /\ fields'[g].touched = fields[g].touched
                /\ fields'[g].valid = fields[g].valid
                /\ fields'[g].errors = fields[g].errors]_vars

\* C25 witness: a.reset() on a form whose field b has been changed and is dirty
C25_ResetNextToDirtyField ==
    /\ last.op = "reset" /\ last.named = {"a"}
    /\ fields["b"].dirty /\ fields["b"].value # InitialValue["b"]
    /\ fields["a"].value = InitialValue["a"] /\ ~fields["a"].dirty


\* C26: in every reachable state each field has valid = true iff its errors
\* are empty, and every step that writes valid or errors of a field leaves the
\* two in agreement.
C26_ValidIffNoErrors ==
    [][\A f \in Fields :
        /\ fields[f].valid <=> fields[f].errors = << >>
        /\ fields'[f].valid <=> fields'[f].errors = << >>]_vars

\* C26 witness: a pass has written an error to a field
C26_InvalidField ==
    \E s \in Slots, f \in Fields :
        /\ passes[s].ev[f].st = "applied"
        /\ ~fields[f].valid /\ fields[f].errors # << >>

\* C27: setRules replaces the rules of the fields it names, and the form rules
\* when it has the key formRules, and nothing else: no pass is started,
\* nothing is scheduled, and valid, errors and dirty of every field and the
\* rules of the other fields (and the form rules without the key) stay.
C27_SetRulesOnlyRules ==
    [][(ops' = ops + 1 /\ last'.op = "setRules")
        => /\ \A f \in Fields :
                /\ f \in last'.named
                    => fields'[f].rules
                        = << [rule |-> [call |-> "required"], autoValidate |-> FALSE] >>
                /\ f \notin last'.named => fields'[f].rules = fields[f].rules
                /\ fields'[f].valid = fields[f].valid
                /\ fields'[f].errors = fields[f].errors
                /\ fields'[f].dirty = fields[f].dirty
                /\ fields'[f].value = fields[f].value
           /\ form'.formRules = IF "formRules" \in last'.named
                                THEN << [rule |-> [call |-> "formError"]] >>
                                ELSE form.formRules
           /\ passes' = passes /\ jobs' = jobs /\ queue' = queue]_vars

\* C27 witness: setRules named field a only, on a form whose field a had an
\* error and whose field b has rules of its own
C27_RulesOfOneField ==
    /\ last.op = "setRules" /\ last.named = {"a"}
    /\ fields["a"].rules = << [rule |-> [call |-> "required"], autoValidate |-> FALSE] >>
    /\ fields["a"].errors # << >>
    /\ fields["b"].rules = << [rule |-> [call |-> "required"]] >>

\* C28: the fields an automatic pass evaluates are exactly the fields whose
\* value differs in content from the last observed snapshot, whatever the
\* shape of the value.
C28_ExactlyChangedFields ==
    (last.op = "unequalValues" /\ last.done)
    => last.result = {f \in Fields : fields[f].value.v # fields[f].prevValue.v}

\* C29: formIgnoreValidation suppresses one change notification and is then
\* cleared: once every operation has settled (nothing queued, no pass under
\* way) the flag is false.
C29_FlagClearedOnceSettled == Quiescent => ~form.ignoreValidation

\* C30: within one pass the field evaluations are all issued by the step
\* that starts the pass, before any of them is awaited (none is issued
\* later and none has resolved in that step); the form rules are invoked
\* only once every field evaluation of the pass has settled; and the
\* aggregator (collectErrors) runs only once the form rules have settled.
Issues(s) == \E f \in Fields : passes[s].ev[f].st = "none" /\ passes'[s].ev[f].st # "none"
InvokesFormRules(s) ==
    passes[s].pc = "fields" /\ passes'[s].pc \in {"formRules", "rejecting", "finish"}
Aggregates(s) == passes[s].pc = "formRules" /\ passes'[s].pc = "finish"
C30_PassOrder ==
    [][\A s \in Slots :
        /\ Issues(s) =>
              /\ passes[s].kind = "idle"
              /\ \A f \in Fields : passes'[s].ev[f].st \notin {"applied", "discarded"}
        /\ InvokesFormRules(s) =>
              \A f \in Fields : passes[s].ev[f].st \in {"none", "applied", "discarded"}
        /\ Aggregates(s) => Settled(passes[s].formRaw)]_vars

\* a pass that evaluated the rules of both fields, then form rules, and
\* aggregated
C30_WholePass ==
    \E s \in Slots :
        /\ passes[s].pc = "finish"
        /\ \A f \in Fields :
              passes[s].ev[f].st = "applied" /\ Len(passes[s].ev[f].raw) > 0
        /\ Len(passes[s].formRaw) > 0

\* C31: the step in which the rules of a field settle sets the field's
\* pending to false, whether the result is applied or discarded; and once
\* every pass has resolved, every field and the form have pending = false.
FieldSettles(s, f) ==
    passes[s].ev[f].st = "waiting" /\ passes'[s].ev[f].st \in {"applied", "discarded"}
C31_PendingClearedOnSettle ==
    [][\A s \in Slots, f \in Fields : FieldSettles(s, f) => ~fields'[f].pending]_vars
C31_NothingPendingOnceResolved ==
    Quiescent => ~form.pending /\ \A f \in Fields : ~fields[f].pending

\* C40: once the exception of a rule that threw has propagated (the promise
\* of the call has rejected), the field whose rule threw keeps its valid and
\* errors, and its pending and the form's pending are false.
Propagated(s) == passes[s].pc = "rejecting" /\ passes'[s].pc # "rejecting"
C40_ConsistentAfterThrow ==
    [][\A s \in Slots : Propagated(s) =>
        /\ \A f \in Fields : passes[s].ev[f].st = "threw" =>
              /\ fields'[f].valid = fields[f].valid
              /\ fields'[f].errors = fields[f].errors
              /\ ~fields'[f].pending
        /\ ~form'.pending]_vars

\* C32: the token of a pass differs from the token of every earlier pass, so
\* a call that has been superseded never holds the form's current token.
C32_SupersededNeverCurrent ==
    \A s \in Slots : passes[s].superseded => passes[s].token # form.lock

\* C33: when a value is assigned to a field and field.validate() is called
\* before the change notification is delivered, the automatic pass of the
\* change supersedes the explicit pass: once everything has settled, the
\* errors of the field hold no error of an autoValidate = false rule.
ManualErrors(f) ==
    {Invoke(fields[f].rules[i].rule, <<fields[f].value, f>>) :
        i \in {j \in 1..Len(fields[f].rules) : ~AutoValidateOf(fields[f].rules[j])}}
ValidatedBeforeNotification(f) ==
    /\ last.op = "validate" /\ last.named = {f}
    /\ last.prevOp = "setValue" /\ last.prevNamed = {f}
    /\ fields[f].dirty /\ f \notin last.dirty0
C33_AutomaticPassWins ==
    \A f \in Fields :
        (Quiescent /\ jobs = {} /\ ValidatedBeforeNotification(f))
        => \A i \in 1..Len(fields[f].errors) : fields[f].errors[i] \notin ManualErrors(f)

\* C34: when an entry of the initial state is a list whose elements are all
\* non-null records, useForm creates one Field per key of each element of the
\* list, and no Field for the list as a whole.
RECURSIVE ExpectedFields(_, _)
ExpectedFields(initState, order) ==
    IF order = << >> THEN << >>
    ELSE (IF initState[Head(order)].kind = "list" /\ initState[Head(order)].records
          THEN Flatten(initState[Head(order)].items)
          ELSE <<Head(order)>>)
         \o ExpectedFields(initState, Tail(order))
C34_FieldPerElementKey ==
    (last.op = "createFields" /\ last.done)
    => last.result = ExpectedFields(last.args[1], FieldOrder)

\* C35: after a pass has started to evaluate field f, an operation on another
\* field g alone (g.validate(), an assignment to g, g.reset()) does not lose
\* the result of f: when the rules of f settle, the pass, which is the most
\* recently started one that evaluated f, writes f.valid and f.errors.
OnlyOther(f) ==
    /\ last.op \in {"validate", "setValue", "reset"}
    /\ last.named # {} /\ f \notin last.named
    /\ \/ last.prevOp = "validateForm"
       \/ last.prevOp = "validate" /\ last.prevNamed = {f}
C35_OtherFieldKeepsResult ==
    [][\A s \in Slots, f \in Fields :
        (OnlyOther(f) /\ FieldSettles(s, f)) => passes'[s].ev[f].st = "applied"]_vars

\* C36: a rule that is applicable in an evaluation (it has a callable and is
\* gated off neither by autoValidate nor by being async) is invoked exactly
\* once for that evaluation.
C36_InvokedOnce ==
    (last.op = "validateInternal" /\ last.done /\ last.args.obj # Omitted)
    => \A i \in 1..Len(last.args.obj[1]) :
          Applicable(last.args.obj[1][i], last.args.alwaysValidate, FALSE)
          => last.result.calls[i] = 1

\* C37: when the promise of field.validate() resolves, the result it returns
\* equals the valid and errors the field shows at that moment.
ValidateResolves(s) ==
    passes[s].kind = "field" /\ passes[s].pc = "finish" /\ passes'[s].kind = "idle"
C37_ResultIsWhatFieldShows ==
    [][\A s \in Slots : ValidateResolves(s) =>
        /\ passes[s].fieldResult.valid = fields'[passes[s].target].valid
        /\ passes[s].fieldResult.errors = fields'[passes[s].target].errors]_vars

\* C38: an explicit validateForm() evaluates every form rule, the form rules
\* declared with autoValidate = false included: the error of such a rule is
\* in the errors validateForm() returns.
ManualFormErrors ==
    {Invoke(form.formRules[i].rule, <<"form">>) :
        i \in {j \in 1..Len(form.formRules) : ~AutoValidateOf(form.formRules[j])}}
ValidateFormResolves(s) ==
    passes[s].kind = "form" /\ passes[s].pc = "finish" /\ passes'[s].kind = "idle"
C38_ManualFormRuleEvaluated ==
    [][\A s \in Slots :
        (ValidateFormResolves(s) /\ last.prevOp = "useForm" /\ last.op = "validateForm")
        => \A e \in ManualFormErrors :
              \E i \in 1..Len(passes[s].result.errors) : passes[s].result.errors[i] = e]_vars

\* C39: field.reset() does not remove the errors of the form rules: when a
\* validateForm() has settled, leaving the error of a form rule, and a field
\* is then reset, form.errors still holds that error once the reset has
\* settled, and form.valid is not true.
FormRuleErrors ==
    {Invoke(form.formRules[i].rule, <<"form">>) :
        i \in {j \in 1..Len(form.formRules) :
                  AutoValidateOf(form.formRules[j])
                  /\ form.formRules[j].rule.call = "formError"}}
ResetAfterValidateForm ==
    /\ last.op = "reset" /\ last.quiet /\ last.prevOp = "validateForm"
    /\ Quiescent /\ jobs = {}
C39_FormRuleErrorsStand ==
    ResetAfterValidateForm
    => /\ \A e \in FormRuleErrors :
             \E i \in 1..Len(form.errors) : form.errors[i] = e
       /\ FormRuleErrors # {} => ~form.valid

====
